---- MODULE Spec2Model ----
(***************************************************************************)
(* Model of the schedule allocator (src/lib/scheduler.ts), the visual      *)
(* timeline editor (VisualScheduleEditor: drop, resize, delete) and chunk  *)
(* completion accounting (src/lib/storage.ts markChunkComplete).           *)
(*                                                                         *)
(* Times of day are "HH:MM" strings in the program; here a time is the     *)
(* pair <<hours, minutes>> and timeToMinutes / minutesToTime convert       *)
(* between the pair and minutes since midnight as the program does.        *)
(* Task effort is stored in hours (minutes / 60) by the program; the model *)
(* keeps the same quantities in whole minutes.  The wall clock is counted  *)
(* in half minutes so that Math.round has something to round.              *)
(***************************************************************************)
EXTENDS Integers, Sequences, FiniteSets, TLC

VARIABLES
  tasks,      \* stored task list (localStorage 'tasks')
  input,      \* the argument record of generateSchedule
  schedule,   \* the Schedule being previewed / edited / run
  phase,      \* "form" | "sweeping" | "preview" | "active" | "ended"
  now,        \* wall clock, half minutes since midnight
  lastOp,     \* the last handler that ran, with its arguments
  before,     \* chunks and tasks as they were when lastOp started
  opCount,    \* number of handler calls so far
  nag,        \* notifications.ts: pending timers and activeCleanupFunction
  sweep,      \* local variables of a generateSchedule call in progress
  alert       \* text of the alert() raised by the last handler, "" if none

vars == <<tasks, input, schedule, phase, now, lastOp, before, opCount,
          nag, sweep, alert>>

----------------------------------------------------------------------------
(* Bounds of the model *)

MaxTasks == 2
MaxBreaks == 2
MaxEdits == 2
MaxCalls == 2
MaxSaves == 1

(* Program constant: minimum chunk length enforced by the editor *)
nextChunkMinDuration == 5

----------------------------------------------------------------------------
(* Small helpers *)

Min(a, b) == IF a <= b THEN a ELSE b
Max(a, b) == IF a >= b THEN a ELSE b

(* One step of a stable sort: x is inserted into the sorted sequence s before
   the first of the positions `later`, the positions of s whose element the
   comparator puts strictly after x; behind all of s when there is none. *)
InsertBefore(x, s, later) ==
  LET p == IF later = {} THEN Len(s) + 1
           ELSE CHOOSE i \in later : \A j \in later : i <= j
  IN SubSeq(s, 1, p - 1) \o <<x>> \o SubSeq(s, p, Len(s))

(* Array.prototype.splice(i, 1) with a 0-based index *)
SpliceOut(s, i) == SubSeq(s, 1, i) \o SubSeq(s, i + 2, Len(s))

(* splice(i, 1, x): the element at i is replaced *)
SpliceInReplacing(s, i, x) == SubSeq(s, 1, i) \o <<x>> \o SubSeq(s, i + 2, Len(s))

(* Array.prototype.splice(i, 0, x) with a 0-based index *)
SpliceIn(s, i, x) == SubSeq(s, 1, i) \o <<x>> \o SubSeq(s, i + 1, Len(s))

(* Array.prototype.findIndex on chunk ids, 0-based, -1 when absent *)
findIndex(chunks, id) ==
  LET hits == {i \in 1..Len(chunks) : chunks[i].id = id}
  IN IF hits = {} THEN 0 - 1
     ELSE (CHOOSE i \in hits : \A j \in hits : i <= j) - 1

----------------------------------------------------------------------------
(* lib/utils time conversions *)

timeToMinutes(t) == t[1] * 60 + t[2]

minutesToTime(n) == <<n \div 60, n % 60>>

----------------------------------------------------------------------------
(* scheduler.ts *)

priorityWeight(p) ==
  CASE p = "high" -> 3 [] p = "medium" -> 2 [] p = "low" -> 1

(* within a priority the most progressed task sorts first *)
TaskBeforeMostProgressed(a, b) ==
  LET priorityDiff == priorityWeight(b.priority) - priorityWeight(a.priority)
  IN IF priorityDiff # 0 THEN priorityDiff < 0
     ELSE b.hoursCompleted * a.estimatedHours < a.hoursCompleted * b.estimatedHours

(* comparator(a, b) < 0 : a sorts strictly before b.  The progress ratios
   hoursCompleted / estimatedHours are compared by cross multiplication
   (estimates are positive). *)
TaskBefore(a, b) ==
  LET priorityDiff == priorityWeight(b.priority) - priorityWeight(a.priority)
  IN IF priorityDiff # 0 THEN priorityDiff < 0
     ELSE a.hoursCompleted * b.estimatedHours < b.hoursCompleted * a.estimatedHours

sortTasksByPriority(ts) ==
  LET f[i \in 0..Len(ts)] ==
        IF i = 0 THEN <<>>
        ELSE InsertBefore(ts[i], f[i - 1],
                          {j \in 1..Len(f[i - 1]) : TaskBefore(ts[i], f[i - 1][j])})
  IN f[Len(ts)]

(* the later break sorts first *)
BreakBeforeDescending(a, b) == timeToMinutes(b.time) - timeToMinutes(a.time) < 0

BreakBefore(a, b) == timeToMinutes(a.time) - timeToMinutes(b.time) < 0

sortBreaks(bs) ==
  LET f[i \in 0..Len(bs)] ==
        IF i = 0 THEN <<>>
        ELSE InsertBefore(bs[i], f[i - 1],
                          {j \in 1..Len(f[i - 1]) : BreakBefore(bs[i], f[i - 1][j])})
  IN f[Len(bs)]

(* completed tasks are kept in the pool *)
availableTasksUnfiltered(ts) == ts

availableTasks(ts) == SelectSeq(ts, LAMBDA t : t.hoursCompleted < t.estimatedHours)

(* remaining minutes of a task, read from the task record (the record is
   not changed by the sweep) *)
remainingMinutes(task) == task.estimatedHours - task.hoursCompleted

(* a break that is not cut at the end of the schedule *)
breakEndUnclamped(currentMinutes, breakItem, endMinutes) ==
  currentMinutes + breakItem.durationMinutes

(* end of a materialized break *)
breakEnd(currentMinutes, breakItem, endMinutes) ==
  Min(currentMinutes + breakItem.durationMinutes, endMinutes)

(* a break placed at its configured time instead of at the cursor *)
breakStartAtBreakTime(currentMinutes, breakItem) == timeToMinutes(breakItem.time)

(* start of a materialized break: the cursor *)
breakStart(currentMinutes, breakItem) == currentMinutes

taskChunkSize(task, in) ==
  IF task.defaultChunkSize # <<>> THEN task.defaultChunkSize[1]
  ELSE in.defaultChunkSize

nagInterval(task, in) ==
  IF task.defaultNagInterval # <<>> THEN task.defaultNagInterval[1]
  ELSE in.defaultNagInterval

(* pending breaks do not limit the chunk *)
maxChunkSizeToEndOnly(s, endMinutes) == endMinutes - s.currentMinutes

(* time until the next pending break or the end of the schedule *)
maxChunkSize(s, endMinutes) ==
  IF s.breakIndex < Len(s.sortedBreaks)
  THEN Min(endMinutes - s.currentMinutes,
           timeToMinutes(s.sortedBreaks[s.breakIndex + 1].time) - s.currentMinutes)
  ELSE endMinutes - s.currentMinutes

chunkSize(task, in, s, endMinutes) ==
  Min(Min(taskChunkSize(task, in), remainingMinutes(task)), maxChunkSize(s, endMinutes))

(* the break pointer is not advanced after a break chunk *)
SweepStepBreakKept(in, s) ==
  LET endMinutes == timeToMinutes(in.endTime)
      cur == s.currentMinutes
  IN
  IF ~(cur < endMinutes) THEN [s EXCEPT !.running = FALSE]
  ELSE IF /\ s.breakIndex < Len(s.sortedBreaks)
          /\ cur >= timeToMinutes(s.sortedBreaks[s.breakIndex + 1].time)
  THEN
    LET breakItem == s.sortedBreaks[s.breakIndex + 1]
        bEnd == breakEnd(cur, breakItem, endMinutes)
        bStart == breakStart(cur, breakItem)
    IN [s EXCEPT
          !.chunks = Append(@, [id |-> Len(@) + 1,
                                type |-> "break",
                                taskId |-> "",
                                startTime |-> minutesToTime(bStart),
                                endTime |-> minutesToTime(bEnd),
                                durationMinutes |-> bEnd - cur,
                                nagIntervalMinutes |-> 0,
                                completed |-> FALSE,
                                completedAt |-> <<>>]),
          !.currentMinutes = bEnd]
  ELSE IF Len(s.sortedTasks) = 0 THEN [s EXCEPT !.running = FALSE]
  ELSE
    LET task == s.sortedTasks[(s.taskIndex % Len(s.sortedTasks)) + 1]
        size == chunkSize(task, in, s, endMinutes)
    IN
    IF size <= 0 THEN [s EXCEPT !.running = FALSE]
    ELSE
      LET emitted == [s EXCEPT
            !.chunks = Append(@, [id |-> Len(@) + 1,
                                  type |-> "task",
                                  taskId |-> task.id,
                                  startTime |-> minutesToTime(cur),
                                  endTime |-> minutesToTime(cur + size),
                                  durationMinutes |-> size,
                                  nagIntervalMinutes |-> nagInterval(task, in),
                                  completed |-> FALSE,
                                  completedAt |-> <<>>]),
            !.currentMinutes = cur + size]
      IN
      IF size >= remainingMinutes(task)
      THEN LET currentTaskIndex == s.taskIndex % Len(s.sortedTasks)
               rest == SpliceOut(s.sortedTasks, currentTaskIndex)
           IN IF Len(rest) = 0
              THEN [emitted EXCEPT !.sortedTasks = rest, !.running = FALSE]
              ELSE [emitted EXCEPT !.sortedTasks = rest,
                                   !.taskIndex = currentTaskIndex % Len(rest)]
      ELSE [emitted EXCEPT !.taskIndex = @ + 1]

(* One iteration of the while loop of generateSchedule.  s.running = FALSE
   once the loop has exited (condition false, or a break statement). *)
SweepStep(in, s) ==
  LET endMinutes == timeToMinutes(in.endTime)
      cur == s.currentMinutes
  IN
  IF ~(cur < endMinutes) THEN [s EXCEPT !.running = FALSE]
  ELSE IF /\ s.breakIndex < Len(s.sortedBreaks)
          /\ cur >= timeToMinutes(s.sortedBreaks[s.breakIndex + 1].time)
  THEN
    LET breakItem == s.sortedBreaks[s.breakIndex + 1]
        bEnd == breakEnd(cur, breakItem, endMinutes)
        bStart == breakStart(cur, breakItem)
    IN [s EXCEPT
          !.chunks = Append(@, [id |-> Len(@) + 1,
                                type |-> "break",
                                taskId |-> "",
                                startTime |-> minutesToTime(bStart),
                                endTime |-> minutesToTime(bEnd),
                                durationMinutes |-> bEnd - cur,
                                nagIntervalMinutes |-> 0,
                                completed |-> FALSE,
                                completedAt |-> <<>>]),
          !.currentMinutes = bEnd,
          !.breakIndex = @ + 1]
  ELSE IF Len(s.sortedTasks) = 0 THEN [s EXCEPT !.running = FALSE]
  ELSE
    LET task == s.sortedTasks[(s.taskIndex % Len(s.sortedTasks)) + 1]
        size == chunkSize(task, in, s, endMinutes)
    IN
    IF size <= 0 THEN [s EXCEPT !.running = FALSE]
    ELSE
      LET emitted == [s EXCEPT
            !.chunks = Append(@, [id |-> Len(@) + 1,
                                  type |-> "task",
                                  taskId |-> task.id,
                                  startTime |-> minutesToTime(cur),
                                  endTime |-> minutesToTime(cur + size),
                                  durationMinutes |-> size,
                                  nagIntervalMinutes |-> nagInterval(task, in),
                                  completed |-> FALSE,
                                  completedAt |-> <<>>]),
            !.currentMinutes = cur + size]
      IN
      IF size >= remainingMinutes(task)
      THEN LET currentTaskIndex == s.taskIndex % Len(s.sortedTasks)
               rest == SpliceOut(s.sortedTasks, currentTaskIndex)
           IN IF Len(rest) = 0
              THEN [emitted EXCEPT !.sortedTasks = rest, !.running = FALSE]
              ELSE [emitted EXCEPT !.sortedTasks = rest,
                                   !.taskIndex = currentTaskIndex % Len(rest)]
      ELSE [emitted EXCEPT !.taskIndex = @ + 1]

RECURSIVE Sweep(_, _)
Sweep(in, s) == IF s.running THEN Sweep(in, SweepStep(in, s)) ELSE s

SweepInit(in) ==
  [chunks |-> <<>>,
   currentMinutes |-> timeToMinutes(in.startTime),
   taskIndex |-> 0,
   breakIndex |-> 0,
   sortedTasks |-> sortTasksByPriority(availableTasks(in.tasks)),
   sortedBreaks |-> sortBreaks(in.breaks),
   running |-> TRUE]

generateSchedule(in) ==
  [startTime |-> in.startTime,
   endTime |-> in.endTime,
   breaks |-> in.breaks,
   defaultChunkSize |-> in.defaultChunkSize,
   status |-> "active",
   chunks |-> IF Len(availableTasks(in.tasks)) = 0 THEN <<>>
              ELSE Sweep(in, SweepInit(in)).chunks]

----------------------------------------------------------------------------
(* VisualScheduleEditor: handleDrop, handleResizeMove, handleChunkDelete.
   A handler that returns early (no onScheduleUpdate call) yields the chunk
   list unchanged. *)

(* room for a next chunk is reserved behind the last chunk too *)
actualDurationReserveAlways(duration, currentMinutes, endMinutes, hasNext) ==
  LET potentialEnd == currentMinutes + duration
      truncated == IF potentialEnd > endMinutes
                   THEN Max(nextChunkMinDuration, endMinutes - currentMinutes)
                   ELSE duration
      maxAllowedEnd == endMinutes - nextChunkMinDuration
  IN IF currentMinutes + truncated > maxAllowedEnd
     THEN Max(nextChunkMinDuration, maxAllowedEnd - currentMinutes)
     ELSE truncated

(* duration given to a chunk by the recalculation pass of handleDrop *)
actualDuration(duration, currentMinutes, endMinutes, hasNext) ==
  LET potentialEnd == currentMinutes + duration
      truncated == IF potentialEnd > endMinutes
                   THEN Max(nextChunkMinDuration, endMinutes - currentMinutes)
                   ELSE duration
      maxAllowedEnd == endMinutes - nextChunkMinDuration
  IN IF hasNext /\ currentMinutes + truncated > maxAllowedEnd
     THEN Max(nextChunkMinDuration, maxAllowedEnd - currentMinutes)
     ELSE truncated

(* the cursor advanced by the chunk's stored length *)
dropAdvanceByDuration(currentMinutes, duration, actual) == currentMinutes + duration

(* currentMinutes += actualDuration *)
dropAdvance(currentMinutes, duration, actual) == currentMinutes + actual

(* "Recalculate times based on new order" *)
recalculateTimes(chunks, startMinutes, endMinutes) ==
  LET f[i \in 0..Len(chunks)] ==
        IF i = 0 THEN [cur |-> startMinutes, out |-> <<>>]
        ELSE LET p == f[i - 1]
                 chunk == chunks[i]
                 actual == actualDuration(chunk.durationMinutes, p.cur,
                                          endMinutes, i - 1 < Len(chunks) - 1)
             IN [cur |-> dropAdvance(p.cur, chunk.durationMinutes, actual),
                 out |-> Append(p.out,
                           [chunk EXCEPT
                              !.startTime = minutesToTime(p.cur),
                              !.endTime = minutesToTime(p.cur + actual),
                              !.durationMinutes = actual])]
  IN f[Len(chunks)].out

(* index at which a chunk dropped on open timeline space is inserted *)
insertIndex(chunks, dropMinutes) ==
  LET later == {i \in 1..Len(chunks) :
                  dropMinutes < timeToMinutes(chunks[i].startTime)}
  IN IF later = {} THEN Len(chunks)
     ELSE (CHOOSE i \in later : \A j \in later : i <= j) - 1

(* targetChunkId = 0 stands for an undefined target (drop on the timeline) *)
handleDrop(sched, draggedChunkId, targetChunkId, dropMinutes) ==
  LET startMinutes == timeToMinutes(sched.startTime)
      endMinutes == timeToMinutes(sched.endTime)
      draggedIndex == findIndex(sched.chunks, draggedChunkId)
  IN IF draggedIndex = 0 - 1 THEN sched.chunks
     ELSE
       LET draggedChunk == sched.chunks[draggedIndex + 1]
           chunks == SpliceOut(sched.chunks, draggedIndex)
       IN IF targetChunkId # 0 /\ targetChunkId # draggedChunkId
          THEN LET targetIndex == findIndex(chunks, targetChunkId)
               IN IF targetIndex = 0 - 1 THEN sched.chunks
                  ELSE recalculateTimes(SpliceIn(chunks, targetIndex, draggedChunk),
                                        startMinutes, endMinutes)
          ELSE recalculateTimes(
                 SpliceIn(chunks, insertIndex(chunks, dropMinutes), draggedChunk),
                 startMinutes, endMinutes)

(* a start edge that is not held back by the previous chunk *)
resizeStartUnchecked(chunks, chunkIndex, minutes, startMinutes) ==
  Min(minutes, timeToMinutes(chunks[chunkIndex + 1].endTime) - nextChunkMinDuration)

(* new start of a chunk whose start edge is dragged to `minutes` *)
resizeStart(chunks, chunkIndex, minutes, startMinutes) ==
  LET chunk == chunks[chunkIndex + 1]
      minStart == IF chunkIndex > 0
                  THEN timeToMinutes(chunks[chunkIndex].endTime)
                  ELSE startMinutes
  IN Max(minStart, Min(minutes, timeToMinutes(chunk.endTime) - nextChunkMinDuration))

(* clamped new end of a chunk whose end edge is dragged to `minutes` *)
resizeEnd(chunks, chunkIndex, minutes, endMinutes) ==
  LET chunk == chunks[chunkIndex + 1]
      maxEnd == IF chunkIndex < Len(chunks) - 1
                THEN timeToMinutes(chunks[chunkIndex + 2].startTime)
                ELSE endMinutes
  IN Min(maxEnd, Max(minutes, timeToMinutes(chunk.startTime) + nextChunkMinDuration))

handleResizeMove(sched, id, edge, minutes) ==
  LET startMinutes == timeToMinutes(sched.startTime)
      endMinutes == timeToMinutes(sched.endTime)
      chunks == sched.chunks
      chunkIndex == findIndex(chunks, id)
  IN IF chunkIndex = 0 - 1 THEN chunks
     ELSE
       LET chunk == chunks[chunkIndex + 1]
           hasNext == chunkIndex < Len(chunks) - 1
           clampedEnd == resizeEnd(chunks, chunkIndex, minutes, endMinutes)
           overlapsNext == /\ edge = "end"
                           /\ hasNext
                           /\ clampedEnd > timeToMinutes(chunks[chunkIndex + 2].startTime)
           remainingTime == timeToMinutes(chunks[chunkIndex + 2].endTime) - clampedEnd
           pushNext == overlapsNext /\ remainingTime >= nextChunkMinDuration
           newStartMinutes == IF edge = "start"
                              THEN resizeStart(chunks, chunkIndex, minutes, startMinutes)
                              ELSE timeToMinutes(chunk.startTime)
           newEndMinutes == IF edge = "start" THEN timeToMinutes(chunk.endTime)
                            ELSE IF overlapsNext /\ ~pushNext
                                 THEN timeToMinutes(chunks[chunkIndex + 2].startTime)
                                 ELSE clampedEnd
       IN [i \in 1..Len(chunks) |->
             IF i = chunkIndex + 1
             THEN [chunk EXCEPT
                     !.startTime = minutesToTime(newStartMinutes),
                     !.endTime = minutesToTime(newEndMinutes),
                     !.durationMinutes = newEndMinutes - newStartMinutes]
             ELSE IF i = chunkIndex + 2 /\ pushNext
             THEN [chunks[i] EXCEPT
                     !.startTime = minutesToTime(clampedEnd),
                     !.durationMinutes = remainingTime]
             ELSE chunks[i]]

(* start given to the chunk after one of length `duration` at `currentMinutes` *)
deleteAdvance(currentMinutes, duration) == currentMinutes + duration

(* "Recalculate times to fill the gap" *)
fillGap(chunks, startMinutes) ==
  LET f[i \in 0..Len(chunks)] ==
        IF i = 0 THEN [cur |-> startMinutes, out |-> <<>>]
        ELSE LET p == f[i - 1]
                 chunk == chunks[i]
                 duration == chunk.durationMinutes
             IN [cur |-> deleteAdvance(p.cur, duration),
                 out |-> Append(p.out,
                           [chunk EXCEPT
                              !.startTime = minutesToTime(p.cur),
                              !.endTime = minutesToTime(p.cur + duration)])]
  IN f[Len(chunks)].out

(* a delete that removes the chunk and recalculates nothing *)
handleChunkDeleteNoFill(sched, editingChunkId) ==
  SelectSeq(sched.chunks, LAMBDA c : c.id # editingChunkId)

(* VisualScheduleEditor.handleChunkDelete; editingChunkId is editingChunk.id *)
handleChunkDelete(sched, editingChunkId) ==
  fillGap(SelectSeq(sched.chunks, LAMBDA c : c.id # editingChunkId),
          timeToMinutes(sched.startTime))

(* ScheduleForm.handleChunkDelete (list view): the same pass over
   previewChunks, starting from the form's startTime *)
handleChunkDeleteList(previewChunks, startTime, editingChunkId) ==
  fillGap(SelectSeq(previewChunks, LAMBDA c : c.id # editingChunkId),
          timeToMinutes(startTime))

----------------------------------------------------------------------------
(* ChunkEditModal.handleSave and the handleChunkSave it calls through onSave.
   The modal's fields are the new start and end time, the nag interval and
   the selected task. *)

minChunkDuration == 5

(* only the start is held against the schedule *)
outsideScheduleStartOnly(startMinutes, endMinutes, scheduleStartTime, scheduleEndTime) ==
  startMinutes < timeToMinutes(scheduleStartTime)

outsideSchedule(startMinutes, endMinutes, scheduleStartTime, scheduleEndTime) ==
  \/ startMinutes < timeToMinutes(scheduleStartTime)
  \/ endMinutes > timeToMinutes(scheduleEndTime)

(* saved = <<>> when handleSave returns without calling onSave *)
handleSave(chunk, startTime, endTime, nagIntervalField, selectedTaskId, scheduleStartTime, scheduleEndTime) ==
  LET startMinutes == timeToMinutes(startTime)
      endMinutes == timeToMinutes(endTime)
      duration == endMinutes - startMinutes
  IN IF duration < minChunkDuration
     THEN [alert |-> "Duration must be at least 5 minutes", saved |-> <<>>]
     ELSE IF outsideSchedule(startMinutes, endMinutes, scheduleStartTime, scheduleEndTime)
     THEN [alert |-> "Chunk times must be within schedule boundaries", saved |-> <<>>]
     ELSE [alert |-> "",
           saved |-> <<[chunk EXCEPT
                          !.startTime = startTime,
                          !.endTime = endTime,
                          !.durationMinutes = duration,
                          !.nagIntervalMinutes = Max(0, nagIntervalField),
                          !.taskId = IF selectedTaskId # "" THEN selectedTaskId
                                     ELSE chunk.taskId]>>]

ChunkBefore(a, b) == timeToMinutes(a.startTime) - timeToMinutes(b.startTime) < 0

sortChunksByStart(chunks) ==
  LET f[i \in 0..Len(chunks)] ==
        IF i = 0 THEN <<>>
        ELSE InsertBefore(chunks[i], f[i - 1],
                          {j \in 1..Len(f[i - 1]) : ChunkBefore(chunks[i], f[i - 1][j])})
  IN f[Len(chunks)]

handleChunkSave(chunks, updatedChunk) ==
  sortChunksByStart([i \in 1..Len(chunks) |->
                       IF chunks[i].id = updatedChunk.id THEN updatedChunk
                       ELSE chunks[i]])

----------------------------------------------------------------------------
(* storage.ts markChunkComplete.  nowT is the wall clock in half minutes
   since midnight; a chunk starts at timeToMinutes(startTime) * 2. *)

(* Math.round of a non-negative number of half minutes, in minutes *)
roundMinutes(halfMinutes) == (halfMinutes + 1) \div 2

(* the elapsed time is capped by the planned length of the chunk *)
elapsedMinutesCapped(chunk, nowT) ==
  LET chunkStart == timeToMinutes(chunk.startTime) * 2
  IN IF nowT < chunkStart THEN chunk.durationMinutes
     ELSE Min(Max(roundMinutes(nowT - chunkStart), 1), chunk.durationMinutes)

elapsedMinutes(chunk, nowT) ==
  LET chunkStart == timeToMinutes(chunk.startTime) * 2
  IN IF nowT < chunkStart THEN chunk.durationMinutes
     ELSE Max(roundMinutes(nowT - chunkStart), 1)

(* the elapsed minutes added without the clamp *)
creditTaskUnclamped(task, elapsed) ==
  [task EXCEPT !.hoursCompleted = @ + elapsed]

(* task.hoursCompleted += elapsed; then clamp to the estimate *)
creditTask(task, elapsed) ==
  [task EXCEPT !.hoursCompleted = Min(@ + elapsed, task.estimatedHours)]

(* an early return that only checks that the chunk exists *)
skipCompletionIfMissing(chunks, chunkIndex) == chunkIndex = 0 - 1

(* "if (!chunk || chunk.completed) return" *)
skipCompletion(chunks, chunkIndex) ==
  chunkIndex = 0 - 1 \/ chunks[chunkIndex + 1].completed

(* the chunk is marked and the mark is taken from every other chunk *)
markChunkCompleteOnly(sched, ts, chunkId, nowT) ==
  LET chunkIndex == findIndex(sched.chunks, chunkId)
  IN IF skipCompletion(sched.chunks, chunkIndex)
     THEN [chunks |-> sched.chunks, tasks |-> ts]
     ELSE
       LET chunk == sched.chunks[chunkIndex + 1]
           hits == {i \in 1..Len(ts) : ts[i].id = chunk.taskId}
           first == CHOOSE i \in hits : \A j \in hits : i <= j
       IN [chunks |-> [i \in 1..Len(sched.chunks) |->
                         IF i = chunkIndex + 1
                         THEN [chunk EXCEPT !.completed = TRUE, !.completedAt = <<nowT>>]
                         ELSE [sched.chunks[i] EXCEPT !.completed = FALSE,
                                                      !.completedAt = <<>>]],
           tasks |-> IF chunk.type = "task" /\ hits # {}
                     THEN [ts EXCEPT ![first] = creditTask(ts[first], elapsedMinutes(chunk, nowT))]
                     ELSE ts]

markChunkComplete(sched, ts, chunkId, nowT) ==
  LET chunkIndex == findIndex(sched.chunks, chunkId)
  IN IF skipCompletion(sched.chunks, chunkIndex)
     THEN [chunks |-> sched.chunks, tasks |-> ts]
     ELSE
       LET chunk == sched.chunks[chunkIndex + 1]
           hits == {i \in 1..Len(ts) : ts[i].id = chunk.taskId}
           first == CHOOSE i \in hits : \A j \in hits : i <= j
       IN [chunks |-> [sched.chunks EXCEPT
                         ![chunkIndex + 1] = [chunk EXCEPT !.completed = TRUE,
                                                           !.completedAt = <<nowT>>]],
           tasks |-> IF chunk.type = "task" /\ hits # {}
                     THEN [ts EXCEPT ![first] = creditTask(ts[first], elapsedMinutes(chunk, nowT))]
                     ELSE ts]

----------------------------------------------------------------------------
(* notifications.ts.  A timer is a pending setTimeout; it is removed from
   nag.timers when it fires or is cleared.  Every startChunkNagging call is
   a session: its number identifies the `timeouts` array and the `cleanup`
   closure of that call.  activeCleanupFunction = 0 stands for null.  Times
   are in half minutes since midnight. *)

NoNag == [timers |-> {}, activeCleanupFunction |-> 0, sessions |-> 0, lastChunk |-> 0]

Timer(session, chunk, tag, at) ==
  [session |-> session, chunk |-> chunk, tag |-> tag, at |-> at]

(* the registration is dropped whichever closure it holds *)
cleanupUnregisterAlways(n, session) ==
  [n EXCEPT !.timers = {t \in @ : t.session # session},
            !.activeCleanupFunction = 0]

(* the cleanup closure of a session: timeouts.forEach(clearTimeout), then
   the registration is dropped if it is this closure's *)
cleanup(n, session) ==
  [n EXCEPT !.timers = {t \in @ : t.session # session},
            !.activeCleanupFunction = IF @ = session THEN 0 ELSE @]

(* the timers of the previous call are left running *)
clearActiveMissing(n) == n

(* "if (activeCleanupFunction) { activeCleanupFunction(); ... = null }" at
   the head of startChunkNagging *)
clearActive(n) ==
  IF n.activeCleanupFunction # 0
  THEN [cleanup(n, n.activeCleanupFunction) EXCEPT !.activeCleanupFunction = 0]
  ELSE n

clearAllNotifications(n) ==
  IF n.activeCleanupFunction # 0
  THEN [cleanup(n, n.activeCleanupFunction) EXCEPT !.activeCleanupFunction = 0]
  ELSE n

chunkStartAt(chunk) == timeToMinutes(chunk.startTime) * 2
chunkEndAt(chunk) == timeToMinutes(chunk.endTime) * 2

(* first nag time: one interval after now or the chunk start, whichever is
   later *)
firstNagTime(chunk, nowT) ==
  Max(nowT, chunkStartAt(chunk)) + chunk.nagIntervalMinutes * 2

(* the loop runs while nextNagTime <= chunkEnd *)
nagTimesThroughEnd(chunk, nowT) ==
  IF chunk.nagIntervalMinutes > 0 /\ chunk.type = "task"
  THEN {t \in (nowT + 1)..chunkEndAt(chunk) :
          /\ t >= firstNagTime(chunk, nowT)
          /\ (t - firstNagTime(chunk, nowT)) % (chunk.nagIntervalMinutes * 2) = 0}
  ELSE {}

(* the times of the nag timers: the while loop over nextNagTime *)
nagTimes(chunk, nowT) ==
  IF chunk.nagIntervalMinutes > 0 /\ chunk.type = "task"
  THEN {t \in (nowT + 1)..(chunkEndAt(chunk) - 1) :
          /\ t >= firstNagTime(chunk, nowT)
          /\ (t - firstNagTime(chunk, nowT)) % (chunk.nagIntervalMinutes * 2) = 0}
  ELSE {}

(* a start timer is also set when the chunk starts at this very moment *)
startChunkNaggingStartNow(n, chunk, nowT) ==
  LET cleared == clearActive(n)
      session == n.sessions + 1
      called == [cleared EXCEPT !.sessions = session, !.lastChunk = chunk.id]
  IN IF nowT > chunkEndAt(chunk) THEN called
     ELSE [called EXCEPT
             !.timers = @
               \cup (IF chunkStartAt(chunk) - nowT >= 0
                     THEN {Timer(session, chunk.id, "chunk-start", chunkStartAt(chunk))}
                     ELSE {})
               \cup {Timer(session, chunk.id, "nag", t) : t \in nagTimes(chunk, nowT)}
               \cup (IF chunkEndAt(chunk) - nowT > 0
                     THEN {Timer(session, chunk.id, "chunk-end", chunkEndAt(chunk))}
                     ELSE {}),
             !.activeCleanupFunction = session]

startChunkNagging(n, chunk, nowT) ==
  LET cleared == clearActive(n)
      session == n.sessions + 1
      called == [cleared EXCEPT !.sessions = session, !.lastChunk = chunk.id]
  IN IF nowT > chunkEndAt(chunk) THEN called
     ELSE [called EXCEPT
             !.timers = @
               \cup (IF chunkStartAt(chunk) - nowT > 0
                     THEN {Timer(session, chunk.id, "chunk-start", chunkStartAt(chunk))}
                     ELSE {})
               \cup {Timer(session, chunk.id, "nag", t) : t \in nagTimes(chunk, nowT)}
               \cup (IF chunkEndAt(chunk) - nowT > 0
                     THEN {Timer(session, chunk.id, "chunk-end", chunkEndAt(chunk))}
                     ELSE {}),
             !.activeCleanupFunction = session]

(* the host fires every timer that is due at time nowT *)
fireDue(n, nowT) == [n EXCEPT !.timers = {t \in @ : t.at > nowT}]

(* completed chunks are not passed over *)
setupScheduleNotificationsAnyChunk(n, sched, nowT) ==
  LET currentTime == nowT \div 2
      open == {i \in 1..Len(sched.chunks) :
                 timeToMinutes(sched.chunks[i].endTime) > currentTime}
      cleared == clearAllNotifications(n)
  IN IF open = {} THEN cleared
     ELSE startChunkNagging(cleared,
                            sched.chunks[CHOOSE i \in open : \A j \in open : i <= j],
                            nowT)

(* App.setupScheduleNotifications *)
setupScheduleNotifications(n, sched, nowT) ==
  LET currentTime == nowT \div 2
      open == {i \in 1..Len(sched.chunks) :
                 /\ ~sched.chunks[i].completed
                 /\ timeToMinutes(sched.chunks[i].endTime) > currentTime}
      cleared == clearAllNotifications(n)
  IN IF open = {} THEN cleared
     ELSE startChunkNagging(cleared,
                            sched.chunks[CHOOSE i \in open : \A j \in open : i <= j],
                            nowT)

----------------------------------------------------------------------------
(* Inputs *)

Task(id, priority, est, done, size, interval) ==
  [id |-> id, priority |-> priority, estimatedHours |-> est,
   hoursCompleted |-> done, defaultChunkSize |-> size, defaultNagInterval |-> interval]

Break(time, duration) == [time |-> time, durationMinutes |-> duration]

(* sequences over S of length at most n *)
SeqsUpTo(S, n) == UNION {[1..k -> S] : k \in 0..n}

Injective(s) == \A i, j \in 1..Len(s) : s[i] = s[j] => i = j

TaskPalette ==
  { Task("A", "high", 20, 0, <<>>, <<>>),
    Task("B", "low", 6, 2, <<3>>, <<>>),
    Task("C", "medium", 5, 5, <<>>, <<>>),
    Task("D", "high", 8, 4, <<>>, <<1>>),
    Task("E", "medium", 3, 0, <<>>, <<>>) }

BreakPalette ==
  { Break(<<8, 50>>, 3), Break(<<9, 0>>, 0), Break(<<9, 0>>, 4), Break(<<9, 5>>, 5) }

(* no generateSchedule call in progress *)
NoSweep ==
  [chunks |-> <<>>, currentMinutes |-> 0, taskIndex |-> 0, breakIndex |-> 0,
   sortedTasks |-> <<>>, sortedBreaks |-> <<>>, running |-> FALSE]

NoOp == [op |-> "none", id |-> 0, edge |-> "", minutes |-> 0, target |-> 0]

InitWith(taskLists, breakLists, starts, ends, sizes, clocks) ==
  /\ tasks \in taskLists
  /\ \E b \in breakLists, st \in starts, en \in ends, sz \in sizes :
       /\ timeToMinutes(st) <= timeToMinutes(en)
       /\ input = [tasks |-> tasks, startTime |-> st, endTime |-> en, breaks |-> b,
                   defaultChunkSize |-> sz, defaultNagInterval |-> 2]
       /\ schedule = [startTime |-> st, endTime |-> en, breaks |-> b,
                      defaultChunkSize |-> sz, status |-> "active", chunks |-> <<>>]
  /\ phase = "form"
  /\ now \in clocks
  /\ lastOp = NoOp
  /\ before = [chunks |-> <<>>, tasks |-> tasks, nag |-> NoNag]
  /\ opCount = 0
  /\ nag = NoNag
  /\ sweep = NoSweep
  /\ alert = ""

(* Allocator inputs: any short task list, any short break list *)
Init ==
  InitWith({s \in SeqsUpTo(TaskPalette, MaxTasks) : Injective(s)},
           SeqsUpTo(BreakPalette, MaxBreaks),
           {<<8, 55>>}, {<<8, 55>>, <<9, 7>>, <<9, 10>>}, {4, 6}, {0})

(* Editor sessions: 08:55-09:07 *)
InitEdit ==
  InitWith({<<Task("A", "high", 20, 0, <<>>, <<>>)>>,
            <<Task("A", "high", 20, 0, <<>>, <<>>), Task("B", "low", 6, 2, <<3>>, <<>>)>>},
           {<<>>, <<Break(<<9, 0>>, 3)>>},
           {<<8, 55>>}, {<<9, 7>>}, {4, 6}, {0})

(* Running sessions: 08:58-09:04, the clock starts a minute early *)
InitRun ==
  InitWith({<<Task("A", "high", 4, 2, <<>>, <<>>)>>,
            <<Task("A", "high", 4, 2, <<>>, <<>>), Task("B", "low", 6, 0, <<>>, <<>>)>>},
           {<<>>, <<Break(<<9, 0>>, 1)>>},
           {<<8, 58>>}, {<<9, 4>>}, {2, 3}, {timeToMinutes(<<8, 57>>) * 2})

(* Edit dialog sessions: 08:55-09:02, one or two tasks *)
InitSave ==
  InitWith({<<Task("A", "high", 20, 0, <<>>, <<>>)>>,
            <<Task("A", "high", 20, 0, <<>>, <<>>), Task("E", "medium", 3, 0, <<>>, <<>>)>>},
           {<<>>}, {<<8, 55>>}, {<<9, 2>>}, {4, 6}, {0})

(* A whole session, from the form to the last completion: 08:58-09:04, two
   tasks, chunks of 3 minutes *)
InitLife ==
  InitWith({<<Task("A", "high", 4, 2, <<>>, <<>>), Task("B", "low", 6, 0, <<>>, <<>>)>>},
           {<<>>}, {<<8, 58>>}, {<<9, 4>>}, {3}, {timeToMinutes(<<8, 57>>) * 2})

(* the notification calls: a six-minute window, chunks of 3 or 6 minutes,
   nag intervals of 2 minutes (the form's), 1 minute (task D's) and 0 (task
   E's: no reminders) *)
InitNag ==
  InitWith({<<Task("A", "high", 20, 0, <<>>, <<>>)>>,
            <<Task("A", "high", 20, 0, <<>>, <<>>), Task("D", "high", 8, 4, <<>>, <<1>>)>>,
            <<Task("E", "medium", 20, 0, <<>>, <<0>>)>>},
           {<<>>, <<Break(<<9, 1>>, 1)>>},
           {<<8, 58>>}, {<<9, 4>>}, {3, 6}, {timeToMinutes(<<8, 57>>) * 2})

----------------------------------------------------------------------------
(* Actions *)

Op(op, id, edge, minutes, target) ==
  [op |-> op, id |-> id, edge |-> edge, minutes |-> minutes, target |-> target]

Snapshot == [chunks |-> schedule.chunks, tasks |-> tasks, nag |-> nag]

ChunkIds == {schedule.chunks[i].id : i \in 1..Len(schedule.chunks)}

(* pointer positions in minutes of the day: the timeline and a minute
   beyond each end of it *)
TimelineMinutes ==
  (timeToMinutes(schedule.startTime) - 1) .. (timeToMinutes(schedule.endTime) + 1)

(* ScheduleForm preview: the schedule is generated from the form's input *)
GenerateSchedule ==
  /\ phase = "form"
  /\ schedule' = generateSchedule(input)
  /\ phase' = "preview"
  /\ lastOp' = Op("generate", 0, "", 0, 0)
  /\ before' = Snapshot
  /\ UNCHANGED <<tasks, input, now, opCount, nag, sweep, alert>>

(* generateSchedule is entered: the early return for an empty pool, or the
   locals as they are before the first iteration *)
SweepBegin ==
  /\ phase = "form"
  /\ IF Len(availableTasks(input.tasks)) = 0
     THEN /\ schedule' = generateSchedule(input)
          /\ phase' = "preview"
          /\ lastOp' = Op("generate", 0, "", 0, 0)
          /\ UNCHANGED sweep
     ELSE /\ sweep' = SweepInit(input)
          /\ phase' = "sweeping"
          /\ lastOp' = Op("begin", 0, "", 0, 0)
          /\ UNCHANGED schedule
  /\ before' = Snapshot
  /\ UNCHANGED <<tasks, input, now, opCount, nag, alert>>

(* one evaluation of the loop condition and, if it holds, of the loop body *)
SweepIterate ==
  /\ phase = "sweeping"
  /\ sweep.running
  /\ sweep' = SweepStep(input, sweep)
  /\ lastOp' = Op("iterate", 0, "", 0, 0)
  /\ UNCHANGED <<tasks, input, schedule, phase, now, before, opCount, nag, alert>>

(* the return statement after the loop *)
SweepReturn ==
  /\ phase = "sweeping"
  /\ ~sweep.running
  /\ schedule' = [startTime |-> input.startTime,
                  endTime |-> input.endTime,
                  breaks |-> input.breaks,
                  defaultChunkSize |-> input.defaultChunkSize,
                  status |-> "active",
                  chunks |-> sweep.chunks]
  /\ phase' = "preview"
  /\ lastOp' = Op("generate", 0, "", 0, 0)
  /\ UNCHANGED <<tasks, input, now, before, opCount, nag, sweep, alert>>

Edit(op, chunks) ==
  /\ phase = "preview"
  /\ opCount < MaxEdits
  /\ schedule' = [schedule EXCEPT !.chunks = chunks]
  /\ lastOp' = op
  /\ before' = Snapshot
  /\ opCount' = opCount + 1
  /\ alert' = ""
  /\ UNCHANGED <<tasks, input, phase, now, nag, sweep>>

HandleDrop ==
  \E d \in ChunkIds, t \in ChunkIds \cup {0}, m \in TimelineMinutes :
    /\ t # 0 => m = timeToMinutes(schedule.startTime)
    /\ Edit(Op("drop", d, "", m, t), handleDrop(schedule, d, t, m))

HandleResizeMove ==
  \E id \in ChunkIds, edge \in {"start", "end"}, m \in TimelineMinutes :
    Edit(Op("resize", id, edge, m, 0), handleResizeMove(schedule, id, edge, m))

HandleChunkDelete ==
  \E id \in ChunkIds :
    Edit(Op("delete", id, "", 0, 0), handleChunkDelete(schedule, id))

(* the ids of chunks of the generated schedule that are no longer in the
   sequence: what a handler holds when its drag, resize or dialog state
   outlives the chunk *)
StaleIds == {i \in 1..Len(generateSchedule(input).chunks) : i \notin ChunkIds}

HandleDropStale ==
  \E d \in StaleIds, t \in ChunkIds \cup {0}, m \in TimelineMinutes :
    /\ t # 0 => m = timeToMinutes(schedule.startTime)
    /\ Edit(Op("drop", d, "", m, t), handleDrop(schedule, d, t, m))

HandleResizeMoveStale ==
  \E id \in StaleIds, edge \in {"start", "end"}, m \in TimelineMinutes :
    Edit(Op("resize", id, edge, m, 0), handleResizeMove(schedule, id, edge, m))

HandleChunkDeleteStale ==
  \E id \in StaleIds :
    Edit(Op("delete", id, "", 0, 0), handleChunkDelete(schedule, id))

HandleChunkDeleteList ==
  \E id \in ChunkIds :
    Edit(Op("deleteList", id, "", 0, 0),
         handleChunkDeleteList(schedule.chunks, input.startTime, id))

(* the times a user can give the edit dialog of a chunk *)
TimelineTimes == {minutesToTime(m) : m \in TimelineMinutes}

(* Save in the edit dialog of chunk i with new start and end times, the nag
   interval and the task left as the dialog shows them: handleSave, and
   through onSave the handleChunkSave of the editor (the list view's does
   the same) *)
HandleChunkSave ==
  \E i \in 1..Len(schedule.chunks) :
    \E startTime, endTime \in TimelineTimes :
      LET r == handleSave(schedule.chunks[i], startTime, endTime,
                          schedule.chunks[i].nagIntervalMinutes,
                          schedule.chunks[i].taskId,
                          schedule.startTime, schedule.endTime)
      IN /\ phase = "preview"
         /\ opCount < MaxSaves
         /\ schedule' = IF r.saved = <<>> THEN schedule
                        ELSE [schedule EXCEPT
                                !.chunks = handleChunkSave(schedule.chunks, r.saved[1])]
         /\ alert' = r.alert
         /\ lastOp' = Op("save", schedule.chunks[i].id, "",
                         timeToMinutes(startTime), timeToMinutes(endTime))
         /\ before' = Snapshot
         /\ opCount' = opCount + 1
         /\ UNCHANGED <<tasks, input, phase, now, nag, sweep>>

(* App.handleScheduleCreated: the previewed schedule becomes the active one.
   setupScheduleNotifications runs in the handler and again in the effect
   on activeSchedule. *)
HandleScheduleCreated ==
  /\ phase = "preview"
  /\ phase' = "active"
  /\ nag' = setupScheduleNotifications(
              setupScheduleNotifications(nag, schedule, now), schedule, now)
  /\ lastOp' = Op("created", 0, "", 0, 0)
  /\ before' = Snapshot
  /\ UNCHANGED <<tasks, input, schedule, now, opCount, sweep, alert>>

(* latest clock value of a run: two minutes past the end of the window *)
ClockEnd == (timeToMinutes(schedule.endTime) + 2) * 2

(* chunks.every(c => c.completed) *)
allCompleted(chunks) == \A i \in 1..Len(chunks) : chunks[i].completed

(* App.handleChunkComplete(id) at some time nowT >= now: timers due by then
   have fired; markChunkComplete(activeSchedule.id, id); loadData; when every
   chunk is completed handleScheduleComplete clears the notifications and
   drops the active schedule, otherwise the effect on activeSchedule sets
   the notifications up again.  The stored schedule is not written again. *)
MarkChunkComplete ==
  \E id \in ChunkIds, nowT \in now..ClockEnd :
    LET r == markChunkComplete(schedule, tasks, id, nowT)
        updated == [schedule EXCEPT !.chunks = r.chunks]
        due == fireDue(nag, nowT)
    IN /\ phase = "active"
       /\ opCount < MaxCalls
       /\ schedule' = updated
       /\ tasks' = r.tasks
       /\ now' = nowT
       /\ IF allCompleted(r.chunks)
          THEN /\ nag' = clearAllNotifications(due)
               /\ phase' = "ended"
          ELSE /\ nag' = setupScheduleNotifications(due, updated, nowT)
               /\ phase' = phase
       /\ lastOp' = Op("complete", id, "", nowT, 0)
       /\ before' = Snapshot
       /\ opCount' = opCount + 1
       /\ UNCHANGED <<input, sweep, alert>>

(* App.handleEndSession: the user ends the session *)
HandleEndSession ==
  /\ phase = "active"
  /\ nag' = clearAllNotifications(nag)
  /\ phase' = "ended"
  /\ lastOp' = Op("endSession", 0, "", now, 0)
  /\ before' = Snapshot
  /\ UNCHANGED <<tasks, input, schedule, now, opCount, sweep, alert>>

(* startChunkNagging(chunk, onChunkEnd) called with a chunk of the schedule *)
StartChunkNagging ==
  \E i \in 1..Len(schedule.chunks) :
    /\ phase = "active"
    /\ opCount < MaxCalls
    /\ nag' = startChunkNagging(nag, schedule.chunks[i], now)
    /\ lastOp' = Op("startNag", schedule.chunks[i].id, "", now, 0)
    /\ before' = Snapshot
    /\ opCount' = opCount + 1
    /\ UNCHANGED <<tasks, input, schedule, phase, now, sweep, alert>>

ClearAllNotifications ==
  /\ phase = "active"
  /\ opCount < MaxCalls
  /\ nag' = clearAllNotifications(nag)
  /\ lastOp' = Op("clearAll", 0, "", now, 0)
  /\ before' = Snapshot
  /\ opCount' = opCount + 1
  /\ UNCHANGED <<tasks, input, schedule, phase, now, sweep, alert>>

(* the cleanup function some earlier startChunkNagging call returned *)
Cleanup ==
  \E session \in 1..nag.sessions :
    /\ phase = "active"
    /\ opCount < MaxCalls
    /\ nag' = cleanup(nag, session)
    /\ lastOp' = Op("cleanup", session, "", now, 0)
    /\ before' = Snapshot
    /\ opCount' = opCount + 1
    /\ UNCHANGED <<tasks, input, schedule, phase, now, sweep, alert>>

(* time passes; the timers that come due fire *)
Tick ==
  \E nowT \in (now + 1)..ClockEnd :
    /\ phase = "active"
    /\ now' = nowT
    /\ nag' = fireDue(nag, nowT)
    /\ lastOp' = Op("tick", 0, "", nowT, 0)
    /\ before' = Snapshot
    /\ UNCHANGED <<tasks, input, schedule, phase, opCount, sweep, alert>>

Next == GenerateSchedule

Spec == Init /\ [][Next]_vars

NextEdit ==
  \/ GenerateSchedule
  \/ HandleDrop
  \/ HandleResizeMove
  \/ HandleChunkDelete
  \/ HandleChunkDeleteList

SpecEdit == InitEdit /\ [][NextEdit]_vars

NextSweep ==
  \/ SweepBegin
  \/ SweepIterate
  \/ SweepReturn

SpecSweep == Init /\ [][NextSweep]_vars

(* generateSchedule is one synchronous call: once entered, its loop and its
   return run without waiting for anything *)
SpecSweepFair == SpecSweep /\ WF_vars(SweepIterate) /\ WF_vars(SweepReturn)

NextNag ==
  \/ GenerateSchedule
  \/ HandleScheduleCreated
  \/ StartChunkNagging
  \/ ClearAllNotifications
  \/ Cleanup
  \/ Tick

SpecNag == InitNag /\ [][NextNag]_vars

NextStale ==
  \/ GenerateSchedule
  \/ HandleChunkDelete
  \/ HandleDropStale
  \/ HandleResizeMoveStale
  \/ HandleChunkDeleteStale

SpecStale == InitEdit /\ [][NextStale]_vars

NextSave ==
  \/ GenerateSchedule
  \/ HandleChunkSave

SpecSave == InitSave /\ [][NextSave]_vars

NextLife ==
  \/ GenerateSchedule
  \/ HandleDrop
  \/ HandleResizeMove
  \/ HandleChunkDelete
  \/ HandleChunkSave
  \/ HandleScheduleCreated
  \/ MarkChunkComplete

SpecLife == InitLife /\ [][NextLife]_vars

NextSession ==
  \/ GenerateSchedule
  \/ HandleScheduleCreated
  \/ MarkChunkComplete
  \/ HandleEndSession
  \/ Tick

SpecSession == InitRun /\ [][NextSession]_vars

NextRun ==
  \/ GenerateSchedule
  \/ HandleScheduleCreated
  \/ MarkChunkComplete

SpecRun == InitRun /\ [][NextRun]_vars

----------------------------------------------------------------------------
(* Vocabulary of the properties *)

startOf(c) == timeToMinutes(c.startTime)
endOf(c) == timeToMinutes(c.endTime)

(* the first chunk starts at startTime and each chunk starts where the
   previous one ends *)
ContiguousFrom(chunks, startTime) ==
  chunks # <<>> =>
    /\ chunks[1].startTime = startTime
    /\ \A i \in 1..(Len(chunks) - 1) : chunks[i].endTime = chunks[i + 1].startTime

(* the half-open spans [start, end) of two chunks share a minute *)
Overlap(a, b) == Max(startOf(a), startOf(b)) < Min(endOf(a), endOf(b))

WithinWindow(chunks, startTime, endTime) ==
  \A i \in 1..Len(chunks) :
    /\ timeToMinutes(startTime) <= startOf(chunks[i])
    /\ endOf(chunks[i]) <= timeToMinutes(endTime)

NoOverlap(chunks) ==
  \A i, j \in 1..Len(chunks) : i < j => ~Overlap(chunks[i], chunks[j])

RECURSIVE TaskChunkMinutes(_, _)
TaskChunkMinutes(chunks, taskId) ==
  IF chunks = <<>> THEN 0
  ELSE (IF Head(chunks).type = "task" /\ Head(chunks).taskId = taskId
        THEN Head(chunks).durationMinutes ELSE 0)
       + TaskChunkMinutes(Tail(chunks), taskId)

Generated == lastOp.op = "generate"

----------------------------------------------------------------------------
(* Allocator properties (specification Spec) *)

(* C1: conservation - for every task of the input, the durations of the
   emitted task chunks that reference it sum to at most the task's remaining
   minutes (estimated - completed) at allocation time. *)
Conservation ==
  Generated =>
    \A i \in 1..Len(input.tasks) :
      TaskChunkMinutes(schedule.chunks, input.tasks[i].id)
        <= remainingMinutes(input.tasks[i])

(* C2: allocator contiguity - a non-empty result starts at the window start
   and every chunk starts exactly where the previous one ends. *)
AllocatorContiguity ==
  Generated => ContiguousFrom(schedule.chunks, input.startTime)

(* a result in which a break lies between two task chunks and the chunks run
   across the hour boundary *)
AllocatorContiguityWitness ==
  /\ Generated
  /\ \E i \in 2..(Len(schedule.chunks) - 1) :
       /\ schedule.chunks[i].type = "break"
       /\ schedule.chunks[i].durationMinutes > 0
       /\ schedule.chunks[i - 1].type = "task"
       /\ schedule.chunks[i + 1].type = "task"
       /\ schedule.chunks[i + 1].startTime[1] = 9

(* C3: allocator bounds - with window start < end, every chunk (task or
   break) lies inside the window and no two chunks overlap. *)
AllocatorBounds ==
  (Generated /\ timeToMinutes(input.startTime) < timeToMinutes(input.endTime)) =>
    /\ WithinWindow(schedule.chunks, input.startTime, input.endTime)
    /\ NoOverlap(schedule.chunks)

(* a result whose last chunk is a break cut short by the window end *)
AllocatorBoundsWitness ==
  /\ Generated
  /\ timeToMinutes(input.startTime) < timeToMinutes(input.endTime)
  /\ Len(schedule.chunks) >= 2
  /\ LET last == schedule.chunks[Len(schedule.chunks)]
     IN /\ last.type = "break"
        /\ last.endTime = input.endTime
        /\ \E i \in 1..Len(input.breaks) :
             /\ input.breaks[i].time = last.startTime
             /\ input.breaks[i].durationMinutes > last.durationMinutes

----------------------------------------------------------------------------
(* Editor properties (specification SpecEdit) *)

(* the chunk of the last operation, as it was before the operation *)
TargetIndex == findIndex(before.chunks, lastOp.id) + 1

(* C4: in every chunk sequence reached from an allocator output by move,
   resize and delete operations, every chunk lies within
   [schedule.startTime, schedule.endTime] and no two chunks overlap. *)
EditorBounds ==
  phase = "preview" =>
    /\ WithinWindow(schedule.chunks, schedule.startTime, schedule.endTime)
    /\ NoOverlap(schedule.chunks)

(* C5 as stated: a resize of a contiguous sequence that starts at the window
   start leaves a contiguous sequence that starts at the window start. *)
ResizeKeepsContiguity ==
  (lastOp.op = "resize" /\ ContiguousFrom(before.chunks, schedule.startTime)) =>
    ContiguousFrom(schedule.chunks, schedule.startTime)

(* C5 amended: a resize of a contiguous sequence that starts at the window
   start never makes adjacent chunks overlap and never moves the first chunk
   before the window start: chunk[i].endTime <= chunk[i+1].startTime and
   chunk[0].startTime >= window.startTime; a gap may remain at the resized
   edge. *)
ResizeKeepsOrder ==
  (lastOp.op = "resize" /\ ContiguousFrom(before.chunks, schedule.startTime)) =>
    /\ Len(schedule.chunks) = Len(before.chunks)
    /\ startOf(schedule.chunks[1]) >= timeToMinutes(schedule.startTime)
    /\ \A i \in 1..(Len(schedule.chunks) - 1) :
         endOf(schedule.chunks[i]) <= startOf(schedule.chunks[i + 1])

(* a start-edge resize of a later chunk that moved the edge and left a gap
   after the previous chunk *)
ResizeKeepsOrderWitness ==
  /\ lastOp.op = "resize"
  /\ lastOp.edge = "start"
  /\ ContiguousFrom(before.chunks, schedule.startTime)
  /\ TargetIndex > 1
  /\ startOf(schedule.chunks[TargetIndex]) = lastOp.minutes
  /\ endOf(schedule.chunks[TargetIndex - 1]) < startOf(schedule.chunks[TargetIndex])

(* C6: an end-edge resize to a time T inside the next chunk's span that
   leaves the next chunk at least 5 minutes sets the chunk's end and the
   next chunk's start to T and keeps the next chunk's end. *)
EndResizePushesNeighbour ==
  (/\ lastOp.op = "resize"
   /\ lastOp.edge = "end"
   /\ TargetIndex < Len(before.chunks)
   /\ startOf(before.chunks[TargetIndex + 1]) < lastOp.minutes
   /\ endOf(before.chunks[TargetIndex + 1]) - lastOp.minutes >= nextChunkMinDuration) =>
    /\ endOf(schedule.chunks[TargetIndex]) = lastOp.minutes
    /\ startOf(schedule.chunks[TargetIndex + 1]) = lastOp.minutes
    /\ schedule.chunks[TargetIndex + 1].endTime = before.chunks[TargetIndex + 1].endTime

(* C7: after a move (drop onto another chunk or onto open timeline space)
   the first chunk starts at schedule.startTime and each chunk starts
   exactly where the previous one ends. *)
MoveContiguity ==
  lastOp.op = "drop" => ContiguousFrom(schedule.chunks, schedule.startTime)

(* a drop that reordered a sequence which had a gap, and in which the
   recalculation changed some chunk's length *)
MoveContiguityWitness ==
  /\ lastOp.op = "drop"
  /\ Len(schedule.chunks) >= 3
  /\ ~ContiguousFrom(before.chunks, schedule.startTime)
  /\ \E i \in 1..Len(schedule.chunks) : schedule.chunks[i].id # before.chunks[i].id
  /\ \E i, j \in 1..Len(schedule.chunks) :
       /\ schedule.chunks[i].id = before.chunks[j].id
       /\ schedule.chunks[i].durationMinutes # before.chunks[j].durationMinutes

(* durationMinutes of the chunk with this id before the operation *)
OldDuration(id) == before.chunks[findIndex(before.chunks, id) + 1].durationMinutes

(* C19, as stated: a move preserves the durationMinutes of every chunk; only
   start and end times are recalculated. *)
MovePreservesDurations ==
  lastOp.op = "drop" =>
    \A i \in 1..Len(schedule.chunks) :
      schedule.chunks[i].durationMinutes = OldDuration(schedule.chunks[i].id)

(* the chunks, in their new order and with the lengths they had, laid end
   to end from the window start: every chunk but the last ends at least
   nextChunkMinDuration before the window end, the last one not after it *)
NewOrderFits ==
  LET n == Len(schedule.chunks)
      laidEnd[i \in 0..n] ==
        IF i = 0 THEN timeToMinutes(schedule.startTime)
        ELSE laidEnd[i - 1] + OldDuration(schedule.chunks[i].id)
  IN \A i \in 1..n :
       laidEnd[i] <= (IF i < n
                      THEN timeToMinutes(schedule.endTime) - nextChunkMinDuration
                      ELSE timeToMinutes(schedule.endTime))

(* C19, amended: a move preserves the durationMinutes of every chunk when
   the new order fits the window with room for a next chunk behind every
   chunk but the last. *)
MovePreservesFittingDurations ==
  (lastOp.op = "drop" /\ NewOrderFits) =>
    \A i \in 1..Len(schedule.chunks) :
      schedule.chunks[i].durationMinutes = OldDuration(schedule.chunks[i].id)

(* a drop that exchanged chunks of different lengths, the last chunk ending
   less than nextChunkMinDuration before the window end *)
MovePreservesFittingDurationsWitness ==
  /\ lastOp.op = "drop"
  /\ NewOrderFits
  /\ Len(schedule.chunks) >= 2
  /\ \E i \in 1..Len(schedule.chunks) :
       /\ schedule.chunks[i].id # before.chunks[i].id
       /\ schedule.chunks[i].durationMinutes # before.chunks[i].durationMinutes
  /\ endOf(schedule.chunks[Len(schedule.chunks)])
       > timeToMinutes(schedule.endTime) - nextChunkMinDuration
  /\ \A i \in 1..Len(schedule.chunks) :
       schedule.chunks[i].durationMinutes = OldDuration(schedule.chunks[i].id)

(* the identifiers of a chunk sequence, in order *)
Ids(chunks) == [i \in 1..Len(chunks) |-> chunks[i].id]

(* a sequence of identifiers without this one *)
Without(ids, id) == SelectSeq(ids, LAMBDA x : x # id)

(* C29: a move never loses or duplicates a chunk: the result has exactly
   the chunk identifiers it started with, each once; the chunks other than
   the moved one keep their relative order; and a chunk dropped onto
   another chunk T ends up immediately before T. *)
MoveIsPermutation ==
  lastOp.op = "drop" =>
    /\ Len(schedule.chunks) = Len(before.chunks)
    /\ \A id \in {before.chunks[i].id : i \in 1..Len(before.chunks)} :
         Cardinality({i \in 1..Len(schedule.chunks) : schedule.chunks[i].id = id}) = 1
    /\ Without(Ids(schedule.chunks), lastOp.id) = Without(Ids(before.chunks), lastOp.id)
    /\ (lastOp.target # 0 /\ lastOp.target # lastOp.id) =>
         \E i \in 1..(Len(schedule.chunks) - 1) :
           /\ schedule.chunks[i].id = lastOp.id
           /\ schedule.chunks[i + 1].id = lastOp.target

(* the last of at least three chunks was dropped onto the first *)
MoveIsPermutationWitness ==
  /\ lastOp.op = "drop"
  /\ Len(before.chunks) >= 3
  /\ before.chunks[Len(before.chunks)].id = lastOp.id
  /\ before.chunks[1].id = lastOp.target
  /\ schedule.chunks[1].id = lastOp.id
  /\ schedule.chunks[2].id = lastOp.target

(* the chunk c moved earlier by d minutes *)
Shifted(c, d) ==
  [c EXCEPT !.startTime = minutesToTime(startOf(c) - d),
            !.endTime = minutesToTime(endOf(c) - d)]

(* C8: deleting chunk k of a contiguous sequence that starts at the window
   start leaves the chunks before k unchanged, moves every chunk after k
   earlier by the deleted chunk's durationMinutes without changing its
   length or the order, and leaves a contiguous sequence that starts at the
   window start. *)
DeleteClosesGap ==
  (/\ lastOp.op \in {"delete", "deleteList"}
   /\ ContiguousFrom(before.chunks, schedule.startTime)) =>
    LET k == TargetIndex
        gone == before.chunks[k]
    IN /\ Len(schedule.chunks) = Len(before.chunks) - 1
       /\ \A i \in 1..(k - 1) : schedule.chunks[i] = before.chunks[i]
       /\ \A i \in k..Len(schedule.chunks) :
            /\ schedule.chunks[i] = Shifted(before.chunks[i + 1], gone.durationMinutes)
            /\ schedule.chunks[i].durationMinutes = before.chunks[i + 1].durationMinutes
            /\ endOf(schedule.chunks[i]) - startOf(schedule.chunks[i])
                 = endOf(before.chunks[i + 1]) - startOf(before.chunks[i + 1])
       /\ ContiguousFrom(schedule.chunks, schedule.startTime)

(* a middle chunk of positive length was deleted from a contiguous sequence
   and the chunk after it moved across the hour boundary *)
DeleteClosesGapWitness ==
  /\ lastOp.op = "delete"
  /\ ContiguousFrom(before.chunks, schedule.startTime)
  /\ TargetIndex > 1
  /\ TargetIndex < Len(before.chunks)
  /\ before.chunks[TargetIndex].durationMinutes > 0
  /\ before.chunks[TargetIndex + 1].startTime[1] = 9
  /\ schedule.chunks[TargetIndex].startTime[1] = 8

----------------------------------------------------------------------------
(* Completion properties (specification SpecRun) *)

(* C9: progress clamp - whatever chunks are completed at whatever times,
   every task's completed time stays at most its estimated time. *)
ProgressClamp ==
  \A i \in 1..Len(tasks) : tasks[i].hoursCompleted <= tasks[i].estimatedHours

(* a completion whose elapsed minutes would have taken the task past its
   estimate *)
ProgressClampWitness ==
  /\ lastOp.op = "complete"
  /\ \E i \in 1..Len(tasks) :
       /\ before.chunks[TargetIndex].type = "task"
       /\ before.chunks[TargetIndex].taskId = tasks[i].id
       /\ ~before.chunks[TargetIndex].completed
       /\ before.tasks[i].hoursCompleted < tasks[i].hoursCompleted
       /\ before.tasks[i].hoursCompleted
            + elapsedMinutes(before.chunks[TargetIndex], lastOp.minutes)
            > tasks[i].estimatedHours

(* the completion of a pending task chunk whose task is in the task list *)
CreditCase ==
  /\ lastOp.op = "complete"
  /\ ~before.chunks[TargetIndex].completed
  /\ before.chunks[TargetIndex].type = "task"

(* half minutes from the start of the completed chunk to the completion *)
SinceStart == lastOp.minutes - 2 * startOf(before.chunks[TargetIndex])

(* the task of the completed chunk has the credit added, up to its estimate;
   the other tasks are as they were *)
Credited(credit) ==
  /\ Len(tasks) = Len(before.tasks)
  /\ \A i \in 1..Len(tasks) :
       tasks[i].hoursCompleted =
         IF tasks[i].id = before.chunks[TargetIndex].taskId
         THEN (IF before.tasks[i].hoursCompleted + credit < tasks[i].estimatedHours
               THEN before.tasks[i].hoursCompleted + credit
               ELSE tasks[i].estimatedHours)
         ELSE before.tasks[i].hoursCompleted

(* C23, as stated: when a pending task chunk is completed at time now, the
   minutes credited to its task before the clamp are
   max(1, round((now - chunkStart) / 60000)) for every now, with no cap by
   the chunk's planned duration. *)
CompletionCreditAnyTime ==
  CreditCase => Credited(Max(1, (SinceStart + 1) \div 2))

(* C23, amended: when a pending task chunk is completed at a time now that
   is not before the chunk's start, the minutes credited before the clamp
   are max(1, round((now - chunkStart) / 60000)) with no cap by the planned
   duration; when now is before the chunk's start they are the chunk's
   planned duration. *)
CompletionCredit ==
  CreditCase =>
    IF SinceStart >= 0
    THEN Credited(Max(1, (SinceStart + 1) \div 2))
    ELSE Credited(before.chunks[TargetIndex].durationMinutes)

(* a chunk completed after its end: more minutes than its planned duration
   were credited and the estimate was not reached *)
CompletionCreditWitness ==
  /\ CreditCase
  /\ lastOp.minutes > 2 * endOf(before.chunks[TargetIndex])
  /\ \E i \in 1..Len(tasks) :
       /\ tasks[i].id = before.chunks[TargetIndex].taskId
       /\ tasks[i].hoursCompleted
            > before.tasks[i].hoursCompleted + before.chunks[TargetIndex].durationMinutes
       /\ tasks[i].hoursCompleted < tasks[i].estimatedHours

(* C10: idempotent completion - completing a chunk that is already
   completed, at any later time, changes neither the chunk (completed flag,
   completedAt), nor any other chunk, nor any task's completed time. *)
IdempotentCompletion ==
  (lastOp.op = "complete" /\ before.chunks[TargetIndex].completed) =>
    /\ schedule.chunks = before.chunks
    /\ tasks = before.tasks

(* a second completion of a task chunk, later than the first, while its
   task could still take credit *)
IdempotentCompletionWitness ==
  /\ lastOp.op = "complete"
  /\ before.chunks[TargetIndex].completed
  /\ before.chunks[TargetIndex].type = "task"
  /\ lastOp.minutes > before.chunks[TargetIndex].completedAt[1]
  /\ \E i \in 1..Len(tasks) :
       /\ tasks[i].id = before.chunks[TargetIndex].taskId
       /\ tasks[i].hoursCompleted < tasks[i].estimatedHours

----------------------------------------------------------------------------
(* Allocator properties, continued (specification Spec) *)

(* C13: no degenerate chunk - every chunk the allocator emits has
   durationMinutes equal to its end time minus its start time, and that
   duration is greater than zero, for every input including breaks of
   duration 0 and breaks cut at the window end. *)
NoDegenerateChunk ==
  Generated =>
    \A i \in 1..Len(schedule.chunks) :
      /\ schedule.chunks[i].durationMinutes
           = endOf(schedule.chunks[i]) - startOf(schedule.chunks[i])
      /\ schedule.chunks[i].durationMinutes > 0

DegenerateInput ==
  \/ input.tasks = <<>>
  \/ \A i \in 1..Len(input.tasks) :
       input.tasks[i].hoursCompleted >= input.tasks[i].estimatedHours
  \/ input.startTime = input.endTime

(* C18: with an empty task list, with every task already complete, or with
   a window whose start equals its end, the allocator returns a schedule
   whose chunk list is empty, whatever breaks are configured. *)
DegenerateInputsGiveNoChunks ==
  (Generated /\ DegenerateInput) =>
    /\ schedule.chunks = <<>>
    /\ schedule.status = "active"
    /\ schedule.startTime = input.startTime
    /\ schedule.endTime = input.endTime

(* every task of a non-empty list is complete, a break is due inside the
   window, and no chunk was emitted *)
DegenerateInputsGiveNoChunksWitness ==
  /\ Generated
  /\ input.tasks # <<>>
  /\ \A i \in 1..Len(input.tasks) :
       input.tasks[i].hoursCompleted >= input.tasks[i].estimatedHours
  /\ input.startTime # input.endTime
  /\ \E i \in 1..Len(input.breaks) :
       timeToMinutes(input.breaks[i].time) <= timeToMinutes(input.startTime)
  /\ schedule.chunks = <<>>

----------------------------------------------------------------------------
(* Round robin (specification SpecSweep) *)

HigherPriority(p, q) ==
  \/ p = "high" /\ q \in {"medium", "low"}
  \/ p = "medium" /\ q = "low"

(* priority descending and, within a priority, completed/estimated ascending *)
PoolOrdered(pool) ==
  \A i, j \in 1..Len(pool) :
    i < j =>
      /\ ~HigherPriority(pool[j].priority, pool[i].priority)
      /\ pool[i].priority = pool[j].priority =>
           pool[i].hoursCompleted * pool[j].estimatedHours
             <= pool[j].hoursCompleted * pool[i].estimatedHours

(* the pool before the first iteration holds exactly the available tasks *)
PoolStart ==
  (phase = "sweeping" /\ lastOp.op = "begin") =>
    /\ Len(sweep.sortedTasks) = Len(availableTasks(input.tasks))
    /\ {sweep.sortedTasks[i] : i \in 1..Len(sweep.sortedTasks)}
         = {t \in {input.tasks[i] : i \in 1..Len(input.tasks)} :
              t.hoursCompleted < t.estimatedHours}
    /\ sweep.taskIndex = 0

(* an iteration that emitted a task chunk *)
RoundRobinStep ==
  (/\ phase = "sweeping" /\ phase' = "sweeping"
   /\ Len(sweep'.chunks) = Len(sweep.chunks) + 1
   /\ sweep'.chunks[Len(sweep'.chunks)].type = "task") =>
    LET pool == sweep.sortedTasks
        slot == sweep.taskIndex % Len(pool)
        task == pool[slot + 1]
        chunk == sweep'.chunks[Len(sweep'.chunks)]
        rest == sweep'.sortedTasks
    IN /\ chunk.taskId = task.id
       /\ IF chunk.durationMinutes >= task.estimatedHours - task.hoursCompleted
          THEN /\ rest = SubSeq(pool, 1, slot) \o SubSeq(pool, slot + 2, Len(pool))
               /\ rest # <<>> =>
                    /\ sweep'.taskIndex % Len(rest) = slot % Len(rest)
                    /\ rest[(sweep'.taskIndex % Len(rest)) + 1]
                         = pool[((slot + 1) % Len(pool)) + 1]
          ELSE /\ rest = pool
               /\ sweep'.taskIndex % Len(pool) = (slot + 1) % Len(pool)

(* C20: round-robin order - the pool starts as the available tasks sorted by
   priority descending and, within a priority, by ascending
   completed/estimated ratio; every task chunk goes to the task at the
   round-robin index; after a chunk that does not cover the task's remaining
   time the index advances by one modulo the pool size; after a chunk that
   covers it the task is removed, the index stays on the slot modulo the new
   pool size, and that slot holds the task that followed the removed one. *)
RoundRobinOrder ==
  /\ [](phase = "sweeping" => PoolOrdered(sweep.sortedTasks))
  /\ []PoolStart
  /\ [][RoundRobinStep]_vars

(* a task has left a pool that started with two tasks, chunks of both have
   been emitted, and the sweep goes on with the remaining task *)
RoundRobinOrderWitness ==
  /\ phase = "sweeping"
  /\ sweep.running
  /\ Len(sweep.sortedTasks) >= 1
  /\ Len(sweep.sortedTasks) < Len(availableTasks(input.tasks))
  /\ Len(sweep.chunks) >= 3
  /\ \E i, j \in 1..Len(sweep.chunks) :
       /\ sweep.chunks[i].type = "task" /\ sweep.chunks[j].type = "task"
       /\ sweep.chunks[i].taskId # sweep.chunks[j].taskId

----------------------------------------------------------------------------
(* Schedule life cycle (specification SpecRun) *)

(* C15: when a chunk completion makes every chunk of the active schedule
   completed, the schedule's status becomes "completed"; a schedule with a
   pending chunk keeps the status "active". *)
ScheduleCompletionTransition ==
  phase \in {"active", "ended"} =>
    /\ (lastOp.op = "complete" /\ allCompleted(schedule.chunks))
         => schedule.status = "completed"
    /\ ~allCompleted(schedule.chunks) => schedule.status = "active"

(* an iteration that emitted a chunk of this type *)
Emits(type) ==
  /\ phase = "sweeping" /\ phase' = "sweeping"
  /\ Len(sweep'.chunks) = Len(sweep.chunks) + 1
  /\ sweep'.chunks[Len(sweep'.chunks)].type = type

(* the break pointer is at a supplied break that has not been materialized *)
BreakPending(s) == s.breakIndex < Len(s.sortedBreaks)
NextBreakTime(s) == timeToMinutes(s.sortedBreaks[s.breakIndex + 1].time)

TaskChunkLengthStep ==
  Emits("task") =>
    LET task == sweep.sortedTasks[(sweep.taskIndex % Len(sweep.sortedTasks)) + 1]
        chunk == sweep'.chunks[Len(sweep'.chunks)]
        cursor == sweep.currentMinutes
        limits ==
          {IF task.defaultChunkSize # <<>> THEN task.defaultChunkSize[1]
           ELSE input.defaultChunkSize,
           task.estimatedHours - task.hoursCompleted,
           timeToMinutes(input.endTime) - cursor}
          \cup (IF BreakPending(sweep) THEN {NextBreakTime(sweep) - cursor} ELSE {})
    IN /\ chunk.durationMinutes \in limits
       /\ \A l \in limits : chunk.durationMinutes <= l
       /\ startOf(chunk) = cursor
       /\ endOf(chunk) = cursor + chunk.durationMinutes

(* C21: task chunk length - every emitted task chunk has as duration exactly
   the minimum of its task's effective chunk size (the task's own, else the
   form's default), the task's remaining minutes, the minutes from the
   cursor to the window end and the minutes from the cursor to the next
   pending break's time; so no task chunk ends after the time of a break
   that is still pending. *)
TaskChunkLength ==
  /\ [][TaskChunkLengthStep]_vars
  /\ [](phase = "sweeping" =>
          \A i \in 1..Len(sweep.chunks) :
            \A b \in (sweep.breakIndex + 1)..Len(sweep.sortedBreaks) :
              sweep.chunks[i].type = "task" =>
                endOf(sweep.chunks[i]) <= timeToMinutes(sweep.sortedBreaks[b].time))

(* the last chunk is a task chunk cut short by the pending break: shorter
   than the task's chunk size, its remaining time and the rest of the window *)
TaskChunkLengthWitness ==
  /\ phase = "sweeping"
  /\ sweep.chunks # <<>>
  /\ BreakPending(sweep)
  /\ LET chunk == sweep.chunks[Len(sweep.chunks)]
     IN /\ chunk.type = "task"
        /\ endOf(chunk) = NextBreakTime(sweep)
        /\ endOf(chunk) < timeToMinutes(input.endTime)
        /\ chunk.durationMinutes < input.defaultChunkSize
        /\ \A i \in 1..Len(input.tasks) :
             input.tasks[i].id = chunk.taskId =>
               /\ input.tasks[i].defaultChunkSize = <<>>
               /\ chunk.durationMinutes
                    < input.tasks[i].estimatedHours - input.tasks[i].hoursCompleted

(* the iteration that starts with the cursor inside the window and at or
   past the pending break's time emits that break's chunk *)
BreakPrecedenceStep ==
  (/\ phase = "sweeping" /\ phase' = "sweeping"
   /\ sweep.running
   /\ sweep.currentMinutes < timeToMinutes(input.endTime)
   /\ BreakPending(sweep)
   /\ sweep.currentMinutes >= NextBreakTime(sweep)) =>
    LET breakItem == sweep.sortedBreaks[sweep.breakIndex + 1]
        chunk == sweep'.chunks[Len(sweep'.chunks)]
        cursor == sweep.currentMinutes
        ending == IF cursor + breakItem.durationMinutes < timeToMinutes(input.endTime)
                  THEN cursor + breakItem.durationMinutes
                  ELSE timeToMinutes(input.endTime)
    IN /\ Len(sweep'.chunks) = Len(sweep.chunks) + 1
       /\ chunk.type = "break"
       /\ startOf(chunk) = cursor
       /\ endOf(chunk) = ending
       /\ chunk.nagIntervalMinutes = 0
       /\ sweep'.currentMinutes = ending
       /\ sweep'.breakIndex = sweep.breakIndex + 1
       /\ sweep'.sortedBreaks = sweep.sortedBreaks

(* the break chunks emitted so far are those of the first breakIndex breaks
   in ascending time order, one chunk for each *)
BreaksOnceInOrder ==
  phase = "sweeping" =>
    LET breakChunks == SelectSeq(sweep.chunks, LAMBDA c : c.type = "break")
    IN /\ Len(breakChunks) = sweep.breakIndex
       /\ sweep.breakIndex <= Len(input.breaks)
       /\ Len(sweep.sortedBreaks) = Len(input.breaks)
       /\ \A b \in {input.breaks[i] : i \in 1..Len(input.breaks)} :
            Cardinality({i \in 1..Len(input.breaks) : input.breaks[i] = b})
              = Cardinality({i \in 1..Len(sweep.sortedBreaks) : sweep.sortedBreaks[i] = b})
       /\ \A i, j \in 1..Len(sweep.sortedBreaks) :
            i < j => timeToMinutes(sweep.sortedBreaks[i].time)
                       <= timeToMinutes(sweep.sortedBreaks[j].time)
       /\ \A k \in 1..Len(breakChunks) :
            /\ startOf(breakChunks[k]) >= timeToMinutes(sweep.sortedBreaks[k].time)
            /\ endOf(breakChunks[k]) - startOf(breakChunks[k])
                 <= sweep.sortedBreaks[k].durationMinutes

(* C22: break precedence - whenever the cursor is before the window end and
   at or past the next pending break's time, the next emitted chunk is a
   break chunk from the cursor to min(cursor + break duration, window end)
   with nagIntervalMinutes 0, before any further task chunk; each supplied
   break is materialized at most once, in ascending time order. *)
BreakPrecedence ==
  /\ [][BreakPrecedenceStep]_vars
  /\ []BreaksOnceInOrder
  /\ [][Emits("break") => BreakPending(sweep) /\ sweep.currentMinutes >= NextBreakTime(sweep)]_vars

(* the second of two breaks was materialized later than its time, behind a
   task chunk and the first break *)
BreakPrecedenceWitness ==
  /\ phase = "sweeping"
  /\ sweep.breakIndex = 2
  /\ Len(sweep.chunks) >= 3
  /\ LET chunk == sweep.chunks[Len(sweep.chunks)]
     IN /\ chunk.type = "break"
        /\ startOf(chunk) > timeToMinutes(sweep.sortedBreaks[2].time)
        /\ sweep.chunks[Len(sweep.chunks) - 1].type = "break"
        /\ sweep.chunks[1].type = "task"

(* an iteration advances the cursor, consumes a pending break, or exits *)
SweepProgressStep ==
  (phase = "sweeping" /\ phase' = "sweeping" /\ sweep.running) =>
    \/ sweep'.currentMinutes > sweep.currentMinutes
    \/ sweep'.breakIndex = sweep.breakIndex + 1
    \/ ~sweep'.running

(* C30: the allocation sweep terminates for every input - every iteration of
   the loop advances the cursor, consumes one pending break or exits, and a
   sweep that has been entered returns its schedule. *)
SweepTerminates ==
  /\ [][SweepProgressStep]_vars
  /\ (phase = "sweeping") ~> (phase = "preview")

(* a sweep has returned that materialized a break of duration 0 and left a
   later break pending when the pool ran empty *)
SweepTerminatesWitness ==
  /\ phase = "preview"
  /\ lastOp.op = "generate"
  /\ sweep.sortedTasks = <<>>
  /\ sweep.breakIndex = 1
  /\ Len(sweep.sortedBreaks) = 2
  /\ \E i \in 1..Len(schedule.chunks) :
       schedule.chunks[i].type = "break" /\ schedule.chunks[i].durationMinutes = 0

----------------------------------------------------------------------------
(* Unknown identifiers (specification SpecStale) *)

(* C26: a move, resize or delete of a chunk whose identifier is not in the
   chunk sequence is reported to the caller as an error. *)
UnknownIdIsError ==
  (/\ lastOp.op \in {"drop", "resize", "delete"}
   /\ \A i \in 1..Len(before.chunks) : before.chunks[i].id # lastOp.id) =>
    alert # ""

----------------------------------------------------------------------------
(* Manual edit (specification SpecSave) *)

(* the chunks other than the one with this id, in order *)
Others(chunks, id) == SelectSeq(chunks, LAMBDA c : c.id # id)

(* C17: a manual edit whose new end is less than 5 minutes after its new
   start, or whose new start is before schedule.startTime, or whose new end
   is after schedule.endTime, is rejected with an alert and leaves the chunk
   sequence unchanged; an edit that meets all three conditions is accepted:
   the chunk takes the new times and length, no alert is raised and the
   other chunks are as they were. *)
ManualEditValidation ==
  lastOp.op = "save" =>
    IF \/ lastOp.target - lastOp.minutes < 5
       \/ lastOp.minutes < timeToMinutes(schedule.startTime)
       \/ lastOp.target > timeToMinutes(schedule.endTime)
    THEN /\ alert # ""
         /\ schedule.chunks = before.chunks
    ELSE /\ alert = ""
         /\ Len(schedule.chunks) = Len(before.chunks)
         /\ Others(schedule.chunks, lastOp.id) = Others(before.chunks, lastOp.id)
         /\ \E i \in 1..Len(schedule.chunks) :
              /\ schedule.chunks[i].id = lastOp.id
              /\ startOf(schedule.chunks[i]) = lastOp.minutes
              /\ endOf(schedule.chunks[i]) = lastOp.target
              /\ schedule.chunks[i].durationMinutes = lastOp.target - lastOp.minutes

(* an edit of at least 5 minutes that starts inside the schedule and ends
   after its end was rejected *)
ManualEditValidationWitness ==
  /\ lastOp.op = "save"
  /\ lastOp.target - lastOp.minutes >= 5
  /\ lastOp.minutes >= timeToMinutes(schedule.startTime)
  /\ lastOp.target > timeToMinutes(schedule.endTime)
  /\ alert # ""
  /\ schedule.chunks = before.chunks
  /\ Len(schedule.chunks) >= 2

----------------------------------------------------------------------------
(* Completion marks (specification SpecLife) *)

Mutators == {"drop", "resize", "delete", "deleteList", "save"}

(* the chunk with this id as it was before the operation *)
OldChunk(id) == before.chunks[findIndex(before.chunks, id) + 1]

(* C16: a chunk that was completed before an operation and is still in the
   sequence is completed after it, whatever the operation; and a move, a
   resize, a delete of another chunk or a manual edit leaves the completed
   flag and completedAt of every remaining chunk as they were. *)
CompletionOneDirectional ==
  lastOp.op \in Mutators \cup {"complete", "created"} =>
    \A i \in 1..Len(schedule.chunks) :
      LET chunk == schedule.chunks[i]
      IN findIndex(before.chunks, chunk.id) # 0 - 1 =>
           /\ OldChunk(chunk.id).completed => chunk.completed
           /\ lastOp.op \in Mutators =>
                /\ chunk.completed = OldChunk(chunk.id).completed
                /\ chunk.completedAt = OldChunk(chunk.id).completedAt

(* a chunk was completed while another chunk was already completed, and
   that chunk is still completed with the time it was given *)
CompletionOneDirectionalWitness ==
  /\ lastOp.op = "complete"
  /\ \E i, j \in 1..Len(schedule.chunks) :
       /\ schedule.chunks[i].id = lastOp.id
       /\ ~OldChunk(lastOp.id).completed
       /\ schedule.chunks[i].completed
       /\ j # i
       /\ OldChunk(schedule.chunks[j].id).completed
       /\ schedule.chunks[j].completed
       /\ schedule.chunks[j].completedAt = OldChunk(schedule.chunks[j].id).completedAt
       /\ schedule.chunks[j].completedAt # schedule.chunks[i].completedAt

----------------------------------------------------------------------------
(* Notifications *)

chunkById(id) == schedule.chunks[findIndex(schedule.chunks, id) + 1]

(* C11: at every moment all pending timers belong to the most recent
   startChunkNagging call and to its chunk: a call first cancels every timer
   of the previous call, also when its own chunk has already ended and it
   schedules nothing, and clearAllNotifications leaves no timer pending. *)
SingleTimerSet ==
  /\ \A t \in nag.timers : t.chunk = nag.lastChunk /\ t.session = nag.sessions
  /\ lastOp.op = "clearAll" => nag.timers = {}
  /\ (lastOp.op = "startNag" /\ lastOp.minutes > chunkEndAt(chunkById(lastOp.id)))
       => nag.timers = {}

(* a call for a chunk that has already ended found timers of another chunk
   pending *)
SingleTimerSetWitness ==
  /\ lastOp.op = "startNag"
  /\ lastOp.minutes > chunkEndAt(chunkById(lastOp.id))
  /\ \E t \in before.nag.timers : t.chunk # lastOp.id
  /\ nag.timers = {}

(* the timers with this tag, just after a startChunkNagging call *)
Scheduled(tag) == {t \in nag.timers : t.tag = tag}

(* C24: a startChunkNagging call at a time after the chunk's end schedules
   no event at all; otherwise it schedules exactly one end event, at the
   chunk's end, if and only if the chunk's end is after now, and one start
   event, at the chunk's start, if and only if now is before the chunk's
   start. *)
EndEventAndExpiry ==
  lastOp.op = "startNag" =>
    LET chunk == chunkById(lastOp.id)
        chunkStart == 2 * startOf(chunk)
        chunkEnd == 2 * endOf(chunk)
    IN IF lastOp.minutes > chunkEnd THEN nag.timers = {}
       ELSE /\ Scheduled("chunk-end") =
                 (IF chunkEnd > lastOp.minutes
                  THEN {Timer(nag.sessions, chunk.id, "chunk-end", chunkEnd)} ELSE {})
            /\ Scheduled("chunk-start") =
                 (IF lastOp.minutes < chunkStart
                  THEN {Timer(nag.sessions, chunk.id, "chunk-start", chunkStart)} ELSE {})

(* a call at the very moment the chunk starts: an end event and no start
   event *)
EndEventAndExpiryWitness ==
  /\ lastOp.op = "startNag"
  /\ lastOp.minutes = 2 * startOf(chunkById(lastOp.id))
  /\ Scheduled("chunk-start") = {}
  /\ Cardinality(Scheduled("chunk-end")) = 1

(* C25: nag events are scheduled only for chunks of type task with
   nagIntervalMinutes > 0 (a break chunk or an interval of 0 gets none), and
   the time of every nag event a startChunkNagging call schedules lies
   strictly between max(now, chunkStart) and chunkEnd. *)
NagEventsConfined ==
  /\ \A t \in Scheduled("nag") :
       /\ chunkById(t.chunk).type = "task"
       /\ chunkById(t.chunk).nagIntervalMinutes > 0
       /\ 2 * startOf(chunkById(t.chunk)) < t.at
       /\ t.at < 2 * endOf(chunkById(t.chunk))
       /\ now < t.at
  /\ lastOp.op = "startNag" =>
       /\ \A t \in Scheduled("nag") : lastOp.minutes < t.at
       /\ (\/ chunkById(lastOp.id).type = "break"
           \/ chunkById(lastOp.id).nagIntervalMinutes = 0) => Scheduled("nag") = {}

(* a call in the middle of a task chunk that scheduled several nag events,
   the first one interval after the call, the last less than one interval
   before the chunk's end *)
NagEventsConfinedWitness ==
  /\ lastOp.op = "startNag"
  /\ lastOp.minutes > 2 * startOf(chunkById(lastOp.id))
  /\ Cardinality(Scheduled("nag")) >= 2
  /\ \E t \in Scheduled("nag") :
       t.at = lastOp.minutes + 2 * chunkById(lastOp.id).nagIntervalMinutes
  /\ \E t \in Scheduled("nag") :
       t.at + 2 * chunkById(lastOp.id).nagIntervalMinutes > 2 * endOf(chunkById(lastOp.id))

(* C27: the cleanup function of an earlier startChunkNagging call cancels no
   timer of the latest call and leaves the latest call registered, so every
   pending timer belongs to the registered session and a following
   clearAllNotifications cancels them all; a cleanup leaves no timer of its
   session and is not registered afterwards, clearAllNotifications leaves no
   timer and no registration, and either of them called again changes
   nothing. *)
StaleCleanupHarmless ==
  /\ \A t \in nag.timers : t.session = nag.activeCleanupFunction
  /\ lastOp.op = "cleanup" =>
       /\ \A t \in nag.timers : t.session # lastOp.id
       /\ nag.activeCleanupFunction # lastOp.id
       /\ lastOp.id # before.nag.activeCleanupFunction => nag = before.nag
  /\ lastOp.op = "clearAll" =>
       /\ nag.timers = {}
       /\ nag.activeCleanupFunction = 0
       /\ before.nag.activeCleanupFunction = 0 => nag = before.nag

(* nagging was started for another chunk than the first, then the cleanup
   function of an earlier call was called: the timers are all still pending
   and the latest call is still registered *)
StaleCleanupHarmlessWitness ==
  /\ lastOp.op = "cleanup"
  /\ lastOp.id < nag.sessions
  /\ nag.lastChunk # 1
  /\ Cardinality(nag.timers) >= 2
  /\ nag.timers = before.nag.timers
  /\ nag.activeCleanupFunction = nag.sessions

(* the chunks that are not completed and end after now, by position *)
OpenChunks ==
  {i \in 1..Len(schedule.chunks) :
     ~schedule.chunks[i].completed /\ 2 * endOf(schedule.chunks[i]) > now}

(* C28: once the user has ended the session, or a completion has made every
   chunk of the active schedule completed, no timer is pending; no pending
   timer is for a completed chunk or for a chunk whose end is not after now;
   and the chunk nagging is started for, when the schedule is started and
   after every completion, is the first not-completed chunk whose end is
   after now. *)
NoRemindersAfterEnd ==
  /\ phase = "ended" => nag.timers = {}
  /\ \A t \in nag.timers :
       /\ ~chunkById(t.chunk).completed
       /\ 2 * endOf(chunkById(t.chunk)) > now
  /\ (phase = "active" /\ lastOp.op \in {"created", "complete"}) =>
       IF OpenChunks = {} THEN nag.timers = {}
       ELSE /\ nag.lastChunk = schedule.chunks[CHOOSE i \in OpenChunks :
                                                 \A j \in OpenChunks : i <= j].id
            /\ \A t \in nag.timers : t.chunk = nag.lastChunk

(* the last pending chunk was completed after its start, while timers of
   that chunk were pending *)
NoRemindersAfterEndWitness ==
  /\ phase = "ended"
  /\ lastOp.op = "complete"
  /\ lastOp.minutes > 2 * startOf(chunkById(lastOp.id))
  /\ \E t \in before.nag.timers : t.chunk = lastOp.id /\ t.at > lastOp.minutes
  /\ nag.timers = {}

(* C12: every pending nag timer is due a positive whole number of nag
   intervals after the start of its chunk, whatever the time of the
   startChunkNagging call was. *)
NagAnchoredToChunkStart ==
  \A t \in nag.timers :
    t.tag = "nag" =>
      LET chunk == chunkById(t.chunk)
      IN /\ t.at > chunkStartAt(chunk)
         /\ (t.at - chunkStartAt(chunk)) % (chunk.nagIntervalMinutes * 2) = 0
====
